---- MODULE Spec2Model ----
(***************************************************************************)
(* gistfs: an io/fs file system over the files of one GitHub gist.         *)
(* The model follows src/gistfs.go, lines 164-334 (the version guarded by  *)
(* sync.RWMutex / sync.Mutex): FS.Load, FS.Open, FS.ReadFile and, on the   *)
(* file handle, Read, Close, Stat, ReadDir and the fs.FileInfo accessors.  *)
(* Every handler is cut at its lock operations and at each access to       *)
(* shared memory, so that two goroutines interleave exactly where the Go   *)
(* code lets them.  FS.ReadDir, Open of the root path and the directory    *)
(* handle, which that file does not contain, follow spec.md 3, 4.1, 4.3.   *)
(***************************************************************************)
EXTENDS Integers, Sequences, FiniteSets, TLC

\* ------------------------------------------------------------------ bounds
MaxHandles == 2   \* file handles that Open may allocate in one run
MaxBuf     == 2   \* Read is called with buffers of length 0..MaxBuf
MaxLen     == 2   \* length of the longest file content

\* ------------------------------------------------------------- basic values
Threads  == {"t1", "t2"}          \* goroutines calling into the package
NoThread == "none"
RootPath == "."
FileNames == {"a", "b"}
Paths    == FileNames \cup {RootPath}

Min(x, y) == IF x <= y THEN x ELSE y

\* Go pointers: nil, or a pointer to a value.
Nil      == <<>>
Ptr(x)   == <<x>>
Deref(p) == p[1]

\* ------------------------------------------------- the fetch collaborator
\* github.GistFile as returned by the API: name, content and the size the API
\* reports (three independent fields of the response).
GistFile(fname, content, size) ==
    [Filename |-> fname, Content |-> content, Size |-> size]

Bytes(k) == [i \in 1..k |-> i]

\* A gist with two files, one of them empty.
Gist1 ==
    [UpdatedAt |-> 1,
     Files |-> [n \in {"a", "b"} |->
                  IF n = "a" THEN GistFile("a", Bytes(MaxLen), MaxLen)
                             ELSE GistFile("b", <<>>, 0)]]

\* A later revision: "b" is gone and "a" is truncated by the API (the response
\* carries only a part of the content, Size is the size of the whole file).
Gist2 ==
    [UpdatedAt |-> 2,
     Files |-> [n \in {"a"} |-> GistFile("a", <<MaxLen + 1>>, MaxLen + 1)]]

FetchGists == {Gist1, Gist2}
FetchErrs  == {"fetch failed"}

\* What client.Gists.Get may return: (gist, nil) or (nil, err).
FetchResults ==
    {[gist |-> Ptr(g), err |-> "nil"] : g \in FetchGists}
      \cup {[gist |-> Nil, err |-> e] : e \in FetchErrs}

\* go-github accessors: nil-safe getters.
GetContent(gfp)  == IF gfp = Nil THEN <<>> ELSE Deref(gfp).Content
GetSize(gfp)     == IF gfp = Nil THEN 0 ELSE Deref(gfp).Size
GetFilename(gfp) == IF gfp = Nil THEN "" ELSE Deref(gfp).Filename
GetUpdatedAt(gp) == IF gp = Nil THEN 0 ELSE Deref(gp).UpdatedAt

\* ----------------------------------------------------------------- errors
\* fs.ErrInvalid, fs.ErrNotExist, fs.ErrClosed and io.EOF are errors.New
\* values; ErrNotLoaded = fmt.Errorf("gist not loaded: %w", fs.ErrInvalid).
UnwrapNothing(e) == "nil"

\* errors.Unwrap(e)
Unwrap(e) == IF e = "NotLoaded" THEN "Invalid" ELSE "nil"

RECURSIVE ErrorsIs(_, _)
\* errors.Is(e, target)
ErrorsIs(e, target) ==
    /\ e # "nil"
    /\ (e = target \/ ErrorsIs(Unwrap(e), target))

\* ------------------------------------------------------------------ state
VARIABLES
    gist,        \* fsys.gist: nil or the gist of the last successful Load
    mu,          \* fsys.mu, a sync.RWMutex: its writer and its readers
    files,       \* the file handles allocated by Open, in allocation order
    pc,          \* where each goroutine is
    frame,       \* the locals of the call each goroutine is in
    ret,         \* the call each goroutine is in and its named results
    info,        \* the fs.FileInfo each goroutine got from its last Stat
    everLoaded,  \* history: a Load has succeeded
    hist,        \* history per handle: the name, snapshot and record it was
                 \* opened on, the record's content, what Read gave,
                 \* whether Close has run on it
    panicked,    \* history: a nil pointer was dereferenced
    dirs         \* the directory handles allocated by Open of the root path

vars ==
    <<gist, mu, files, pc, frame, ret, info, everLoaded, hist, panicked, dirs>>

NoFrame == [gf |-> Nil, gist |-> Nil, err |-> "nil", i |-> 0]

\* op, its arguments (name, h, blen), its results (err, errPath, n, data, file,
\* dir, entries, and what the accessors of an fs.FileInfo gave: fname, mode,
\* mtime, isDir) and, as history, what held when the call was made.  The results
\* are final when the goroutine is at one of ReturnPcs; the step that returns
\* hands them to the caller and clears the record.
NoRet ==
    [op |-> "None", name |-> "", h |-> 0, blen |-> 0,
     err |-> "nil", errPath |-> "", n |-> 0, data |-> <<>>, file |-> 0,
     dir |-> 0, count |-> 0, entries |-> <<>>,
     fname |-> "", mode |-> 0, mtime |-> 0, isDir |-> FALSE,
     wasLoaded |-> FALSE, wasClosed |-> FALSE, seen |-> {}]

ReturnPcs ==
    {"load_unlock", "open_runlock", "rf_runlock", "read_unlock",
     "close_unlock", "stat_unlock", "return"}

Returning(t) == pc[t] \in ReturnPcs

Handles == 1..Len(files)

Init ==
    /\ gist = Nil
    /\ mu = [writer |-> NoThread, readers |-> {}]
    /\ files = <<>>
    /\ pc = [t \in Threads |-> "idle"]
    /\ frame = [t \in Threads |-> NoFrame]
    /\ ret = [t \in Threads |-> NoRet]
    /\ info = [t \in Threads |-> 0]
    /\ everLoaded = FALSE
    /\ hist = <<>>
    /\ panicked = FALSE
    /\ dirs = <<>>

\* The start of a call on the file system: the caller's record of it.  An Open
\* or ReadFile also records every snapshot that is current while it runs, a
\* ReadDir the snapshot it answers from.
FSCall(op, name) ==
    [NoRet EXCEPT !.op = op, !.name = name,
                  !.wasLoaded = (op # "Load" /\ everLoaded),
                  !.seen = IF op \in {"Open", "ReadFile", "ReadDir"}
                           THEN {gist} ELSE {}]

\* The start of a call on a handle.
FileCall(op, h, blen) ==
    [NoRet EXCEPT !.op = op, !.h = h, !.blen = blen,
                  !.wasClosed = IF h \in Handles THEN hist[h].closed
                                ELSE FALSE]

\* sync.RWMutex
LockFree(m)  == m.writer = NoThread /\ m.readers = {}

RLockFreeNoWait(m) == TRUE

RLockFree(m) == m.writer = NoThread

\* return without a deferred unlock
Return(t) ==
    /\ pc[t] = "return"
    /\ pc' = [pc EXCEPT ![t] = "idle"]
    /\ ret' = [ret EXCEPT ![t] = NoRet]
    /\ frame' = [frame EXCEPT ![t] = NoFrame]
    /\ UNCHANGED <<gist, mu, files, info, everLoaded, hist, panicked, dirs>>

\* ------------------------------------------------------------------- Load
LoadStoreEarly(cur, g, err) == g

\* fsys.gist after Load's fetch returned (g, err).
LoadStore(cur, g, err) == IF err # "nil" THEN cur ELSE g

LoadCall(t) ==
    /\ pc[t] = "idle"
    /\ pc' = [pc EXCEPT ![t] = "load_lock"]
    /\ ret' = [ret EXCEPT ![t] = FSCall("Load", "")]
    /\ info' = [info EXCEPT ![t] = 0]
    /\ UNCHANGED <<gist, mu, files, frame, everLoaded, hist, panicked, dirs>>

LoadLock(t) ==
    /\ pc[t] = "load_lock"
    /\ LockFree(mu)
    /\ mu' = [mu EXCEPT !.writer = t]
    /\ pc' = [pc EXCEPT ![t] = "load_fetch"]
    /\ UNCHANGED <<gist, files, frame, ret, info, everLoaded, hist, panicked, dirs>>

LoadFetch(t) ==
    /\ pc[t] = "load_fetch"
    /\ \E r \in FetchResults :
         frame' = [frame EXCEPT ![t].gist = r.gist, ![t].err = r.err]
    /\ pc' = [pc EXCEPT ![t] = "load_assign"]
    /\ UNCHANGED <<gist, mu, files, ret, info, everLoaded, hist, panicked, dirs>>

\* if err != nil { return err }; fsys.gist = gist.  Every Open and ReadFile
\* in progress is told (as history) of the snapshot installed.
LoadAssign(t) ==
    /\ pc[t] = "load_assign"
    /\ gist' = LoadStore(gist, frame[t].gist, frame[t].err)
    /\ everLoaded' = (everLoaded \/ frame[t].err = "nil")
    /\ ret' = [u \in Threads |->
                 IF u = t THEN [ret[u] EXCEPT !.err = frame[t].err]
                 ELSE IF ret[u].op \in {"Open", "ReadFile"}
                      THEN [ret[u] EXCEPT !.seen = @ \cup {gist'}]
                      ELSE ret[u]]
    /\ pc' = [pc EXCEPT ![t] = "load_unlock"]
    /\ UNCHANGED <<mu, files, frame, info, hist, panicked, dirs>>

LoadUnlock(t) ==
    /\ pc[t] = "load_unlock"
    /\ mu' = [mu EXCEPT !.writer = NoThread]
    /\ pc' = [pc EXCEPT ![t] = "idle"]
    /\ ret' = [ret EXCEPT ![t] = NoRet]
    /\ frame' = [frame EXCEPT ![t] = NoFrame]
    /\ UNCHANGED <<gist, files, info, everLoaded, hist, panicked, dirs>>

\* ------------------------------------------------------------------- Open
\* Open allocates at most MaxHandles handles in one run.
Opening == {t \in Threads : pc[t] \in {"open_rlock", "open_check",
                                       "open_lookup", "open_new"}}

IsNotLoadedNever(g) == FALSE

\* fsys.gist == nil
IsNotLoaded(g) == g = Nil

\* f, ok := fsys.gist.Files[github.GistFilename(name)]
HasFile(gp, name) == name \in DOMAIN Deref(gp).Files
FileOf(gp, name)  == Deref(gp).Files[name]

\* bytes.NewReader(s)
NewReader(s) == [s |-> s, i |-> 0]

NewFileNoModtime(gfp, gp) ==
    [gistFile |-> gfp,
     reader   |-> Ptr(NewReader(GetContent(gfp))),
     modtime  |-> 0,
     mu       |-> NoThread]

\* &file{gistFile: &f, reader: bytes.NewReader([]byte(f.GetContent())),
\*       modtime: fsys.gist.GetUpdatedAt()}
NewFile(gfp, gp) ==
    [gistFile |-> gfp,
     reader   |-> Ptr(NewReader(GetContent(gfp))),
     modtime  |-> GetUpdatedAt(gp),
     mu       |-> NoThread]

OpenCall(t) ==
    /\ pc[t] = "idle"
    /\ Len(files) + Cardinality(Opening) < MaxHandles
    /\ \E name \in Paths :
         ret' = [ret EXCEPT ![t] = FSCall("Open", name)]
    /\ pc' = [pc EXCEPT ![t] = "open_rlock"]
    /\ info' = [info EXCEPT ![t] = 0]
    /\ UNCHANGED <<gist, mu, files, frame, everLoaded, hist, panicked, dirs>>

OpenRLock(t) ==
    /\ pc[t] = "open_rlock"
    /\ RLockFree(mu)
    /\ mu' = [mu EXCEPT !.readers = @ \cup {t}]
    /\ pc' = [pc EXCEPT ![t] = "open_check"]
    /\ UNCHANGED <<gist, files, frame, ret, info, everLoaded, hist, panicked, dirs>>

OpenCheck(t) ==
    /\ pc[t] = "open_check"
    /\ IF IsNotLoaded(gist)
       THEN /\ ret' = [ret EXCEPT ![t].err = "NotLoaded"]
            /\ pc' = [pc EXCEPT ![t] = "open_runlock"]
       ELSE /\ pc' = [pc EXCEPT ![t] = "open_lookup"]
            /\ ret' = ret
    /\ UNCHANGED <<gist, mu, files, frame, info, everLoaded, hist, panicked, dirs>>

\* The map lookup; on a nil gist, fsys.gist.Files is a nil dereference.
OpenLookup(t) ==
    /\ pc[t] = "open_lookup"
    /\ IF gist = Nil
       THEN /\ panicked' = TRUE
            /\ ret' = [ret EXCEPT ![t].err = "panic"]
            /\ pc' = [pc EXCEPT ![t] = "open_runlock"]
            /\ frame' = frame
       ELSE IF HasFile(gist, ret[t].name)
       THEN /\ frame' = [frame EXCEPT ![t].gf = Ptr(FileOf(gist, ret[t].name))]
            /\ pc' = [pc EXCEPT ![t] = "open_new"]
            /\ UNCHANGED <<ret, panicked>>
       ELSE \* return nil, fs.ErrNotExist: the bare sentinel, no path in it
            /\ ret' = [ret EXCEPT ![t].err = "NotExist", ![t].errPath = ""]
            /\ pc' = [pc EXCEPT ![t] = "open_runlock"]
            /\ UNCHANGED <<frame, panicked>>
    /\ UNCHANGED <<gist, mu, files, info, everLoaded, hist, dirs>>

OpenNew(t) ==
    /\ pc[t] = "open_new"
    /\ files' = Append(files, NewFile(frame[t].gf, gist))
    /\ ret' = [ret EXCEPT ![t].file = Len(files) + 1]
    /\ hist' = Append(hist, [name |-> ret[t].name, snap |-> gist,
                             gf |-> frame[t].gf,
                             content |-> GetContent(frame[t].gf),
                             out |-> <<>>, closed |-> FALSE])
    /\ pc' = [pc EXCEPT ![t] = "open_runlock"]
    /\ UNCHANGED <<gist, mu, frame, info, everLoaded, panicked, dirs>>

OpenRUnlock(t) ==
    /\ pc[t] = "open_runlock"
    /\ mu' = [mu EXCEPT !.readers = @ \ {t}]
    /\ pc' = [pc EXCEPT ![t] = "idle"]
    /\ ret' = [ret EXCEPT ![t] = NoRet]
    /\ frame' = [frame EXCEPT ![t] = NoFrame]
    /\ UNCHANGED <<gist, files, info, everLoaded, hist, panicked, dirs>>

\* --------------------------------------------------------------- ReadFile
ReadFileCall(t) ==
    /\ pc[t] = "idle"
    /\ \E name \in Paths :
         ret' = [ret EXCEPT ![t] = FSCall("ReadFile", name)]
    /\ pc' = [pc EXCEPT ![t] = "rf_rlock"]
    /\ info' = [info EXCEPT ![t] = 0]
    /\ UNCHANGED <<gist, mu, files, frame, everLoaded, hist, panicked, dirs>>

ReadFileRLock(t) ==
    /\ pc[t] = "rf_rlock"
    /\ RLockFree(mu)
    /\ mu' = [mu EXCEPT !.readers = @ \cup {t}]
    /\ pc' = [pc EXCEPT ![t] = "rf_check"]
    /\ UNCHANGED <<gist, files, frame, ret, info, everLoaded, hist, panicked, dirs>>

ReadFileCheck(t) ==
    /\ pc[t] = "rf_check"
    /\ IF IsNotLoaded(gist)
       THEN /\ ret' = [ret EXCEPT ![t].err = "NotLoaded"]
            /\ pc' = [pc EXCEPT ![t] = "rf_runlock"]
       ELSE /\ pc' = [pc EXCEPT ![t] = "rf_lookup"]
            /\ ret' = ret
    /\ UNCHANGED <<gist, mu, files, frame, info, everLoaded, hist, panicked, dirs>>

ReadFileBytesTruncated(gf) ==
    SubSeq(GetContent(Ptr(gf)), 1, Len(GetContent(Ptr(gf))) - 1)

\* []byte(gistFile.GetContent())
ReadFileBytes(gf) == GetContent(Ptr(gf))

ReadFileLookup(t) ==
    /\ pc[t] = "rf_lookup"
    /\ IF gist = Nil
       THEN /\ panicked' = TRUE
            /\ ret' = [ret EXCEPT ![t].err = "panic"]
       ELSE IF HasFile(gist, ret[t].name)
       THEN /\ ret' = [ret EXCEPT
                         ![t].data = ReadFileBytes(FileOf(gist, ret[t].name))]
            /\ panicked' = panicked
       ELSE /\ ret' = [ret EXCEPT ![t].err = "NotExist", ![t].errPath = ""]
            /\ panicked' = panicked
    /\ pc' = [pc EXCEPT ![t] = "rf_runlock"]
    /\ UNCHANGED <<gist, mu, files, frame, info, everLoaded, hist, dirs>>

ReadFileRUnlock(t) ==
    /\ pc[t] = "rf_runlock"
    /\ mu' = [mu EXCEPT !.readers = @ \ {t}]
    /\ pc' = [pc EXCEPT ![t] = "idle"]
    /\ ret' = [ret EXCEPT ![t] = NoRet]
    /\ UNCHANGED <<gist, files, frame, info, everLoaded, hist, panicked, dirs>>

\* ------------------------------------------------------- the file handle
\* A handle a caller can hold: nil, or one that Open has returned.
InFlight(h) == \E t \in Threads : pc[t] = "open_new" \/
                                  (pc[t] = "open_runlock" /\ ret[t].file = h)
HandleArgs == {0} \cup {h \in Handles : ~InFlight(h)}

\* sync.Mutex
HandleLockFreeNoWait(f) == TRUE

HandleLockFree(f) == f.mu = NoThread

FilesAfterUnlockOnSuccess(fs, h, err) ==
    IF err = "Closed" THEN fs ELSE [fs EXCEPT ![h].mu = NoThread]

\* defer f.mu.Unlock(): the handles when a call on handle h returns err.
FilesAfterUnlock(fs, h, err) == [fs EXCEPT ![h].mu = NoThread]

\* func (f *file) isClosed() bool
isClosed(f) == f.reader = Nil

ReaderReadShort(s, i, blen) ==
    IF i >= Len(s) - 1
    THEN [n |-> 0, err |-> "EOF", data |-> <<>>, i |-> i]
    ELSE LET n == Min(blen, Len(s) - i)
         IN  [n |-> n, err |-> "nil", data |-> SubSeq(s, i + 1, i + n),
              i |-> i + n]

ReaderReadNoEOF(s, i, blen) ==
    LET n == Min(blen, Len(s) - i)
    IN  [n |-> n, err |-> "nil", data |-> SubSeq(s, i + 1, i + n), i |-> i + n]

ReaderReadAdvanceLen(s, i, blen) ==
    IF i >= Len(s)
    THEN [n |-> 0, err |-> "EOF", data |-> <<>>, i |-> i]
    ELSE LET n == Min(blen, Len(s) - i)
         IN  [n |-> n, err |-> "nil", data |-> SubSeq(s, i + 1, i + n),
              i |-> i + blen]

\* (*bytes.Reader).Read on content s with the cursor at i and len(b) = blen:
\* (0, io.EOF) at the end, else copy(b, s[i:]) and the cursor moves on.
ReaderRead(s, i, blen) ==
    IF i >= Len(s)
    THEN [n |-> 0, err |-> "EOF", data |-> <<>>, i |-> i]
    ELSE LET n == Min(blen, Len(s) - i)
         IN  [n |-> n, err |-> "nil", data |-> SubSeq(s, i + 1, i + n),
              i |-> i + n]

ReaderBytesLive(f, gp) ==
    IF gp # Nil /\ HasFile(gp, GetFilename(f.gistFile))
    THEN GetContent(Ptr(FileOf(gp, GetFilename(f.gistFile))))
    ELSE <<>>

\* The bytes f.reader reads from while fsys.gist is gp: the reader's own
\* slice, made by Open.
ReaderBytes(f, gp) == Deref(f.reader).s

FilesAfterReadShared(fs, h, i) ==
    [k \in DOMAIN fs |->
       IF fs[k].reader # Nil /\ fs[k].gistFile = fs[h].gistFile
       THEN [fs[k] EXCEPT !.reader = Ptr([Deref(fs[k].reader) EXCEPT !.i = i])]
       ELSE fs[k]]

\* The handles after Read moved handle h's cursor to i.
FilesAfterRead(fs, h, i) ==
    [fs EXCEPT ![h].reader = Ptr([Deref(fs[h].reader) EXCEPT !.i = i])]

CloseFileKeepReader(f) == [f EXCEPT !.gistFile = Nil]

\* f.gistFile = nil; f.reader = nil
CloseFile(f) == [f EXCEPT !.gistFile = Nil, !.reader = Nil]

CloseErrIfClosed(f) == IF isClosed(f) THEN "Closed" ELSE "nil"

\* Close's result: return nil
CloseErr(f) == "nil"

\* --- Read
ReadCall(t) ==
    /\ pc[t] = "idle"
    /\ \E h \in HandleArgs :
         IF h = 0
         THEN /\ ret' = [ret EXCEPT ![t] =
                           [FileCall("Read", h, 0) EXCEPT !.err = "Invalid"]]
              /\ pc' = [pc EXCEPT ![t] = "return"]
         ELSE /\ ret' = [ret EXCEPT ![t] = FileCall("Read", h, 0)]
              /\ pc' = [pc EXCEPT ![t] = "read_lock"]
    /\ info' = [info EXCEPT ![t] = 0]
    /\ UNCHANGED <<gist, mu, files, frame, everLoaded, hist, panicked, dirs>>

ReadLock(t) ==
    /\ pc[t] = "read_lock"
    /\ HandleLockFree(files[ret[t].h])
    /\ files' = [files EXCEPT ![ret[t].h].mu = t]
    /\ pc' = [pc EXCEPT ![t] = "read_check"]
    /\ UNCHANGED <<gist, mu, frame, ret, info, everLoaded, hist, panicked, dirs>>

ReadCheck(t) ==
    /\ pc[t] = "read_check"
    /\ IF isClosed(files[ret[t].h])
       THEN /\ ret' = [ret EXCEPT ![t].err = "Closed"]
            /\ pc' = [pc EXCEPT ![t] = "read_unlock"]
       ELSE /\ pc' = [pc EXCEPT ![t] = "read_load"]
            /\ ret' = ret
    /\ UNCHANGED <<gist, mu, files, frame, info, everLoaded, hist, panicked, dirs>>

\* f.reader.Read(b), first half: the reader loads its cursor.  A nil reader
\* here is a nil dereference.
ReadLoad(t) ==
    /\ pc[t] = "read_load"
    /\ LET f == files[ret[t].h] IN
       IF f.reader = Nil
       THEN /\ panicked' = TRUE
            /\ ret' = [ret EXCEPT ![t].err = "panic"]
            /\ pc' = [pc EXCEPT ![t] = "read_unlock"]
            /\ frame' = frame
       ELSE /\ frame' = [frame EXCEPT ![t].i = Deref(f.reader).i]
            /\ pc' = [pc EXCEPT ![t] = "read_copy"]
            /\ UNCHANGED <<ret, panicked>>
    /\ UNCHANGED <<gist, mu, files, info, everLoaded, hist, dirs>>

\* f.reader.Read(b), second half: copy and store the new cursor.  The length
\* of the caller's buffer b is drawn here, where it is first used.
ReadCopy(t) ==
    /\ pc[t] = "read_copy"
    /\ LET h == ret[t].h
           f == files[h] IN
       IF f.reader = Nil
       THEN /\ panicked' = TRUE
            /\ ret' = [ret EXCEPT ![t].err = "panic"]
            /\ UNCHANGED <<files, hist>>
       ELSE \E blen \in 0..MaxBuf :
            LET r == ReaderRead(ReaderBytes(f, gist), frame[t].i, blen) IN
            /\ files' = FilesAfterRead(files, h, r.i)
            /\ ret' = [ret EXCEPT ![t].blen = blen, ![t].n = r.n,
                                  ![t].err = r.err, ![t].data = r.data]
            /\ hist' = [hist EXCEPT ![h].out = @ \o r.data]
            /\ panicked' = panicked
    /\ pc' = [pc EXCEPT ![t] = "read_unlock"]
    /\ UNCHANGED <<gist, mu, frame, info, everLoaded, dirs>>

ReadUnlock(t) ==
    /\ pc[t] = "read_unlock"
    /\ files' = FilesAfterUnlock(files, ret[t].h, ret[t].err)
    /\ pc' = [pc EXCEPT ![t] = "idle"]
    /\ ret' = [ret EXCEPT ![t] = NoRet]
    /\ frame' = [frame EXCEPT ![t] = NoFrame]
    /\ UNCHANGED <<gist, mu, info, everLoaded, hist, panicked, dirs>>

\* --- Close
CloseCall(t) ==
    /\ pc[t] = "idle"
    /\ \E h \in HandleArgs :
         IF h = 0
         THEN /\ ret' = [ret EXCEPT ![t] =
                           [FileCall("Close", h, 0) EXCEPT !.err = "Invalid"]]
              /\ pc' = [pc EXCEPT ![t] = "return"]
         ELSE /\ ret' = [ret EXCEPT ![t] = FileCall("Close", h, 0)]
              /\ pc' = [pc EXCEPT ![t] = "close_lock"]
    /\ info' = [info EXCEPT ![t] = 0]
    /\ UNCHANGED <<gist, mu, files, frame, everLoaded, hist, panicked, dirs>>

CloseLock(t) ==
    /\ pc[t] = "close_lock"
    /\ HandleLockFree(files[ret[t].h])
    /\ files' = [files EXCEPT ![ret[t].h].mu = t]
    /\ pc' = [pc EXCEPT ![t] = "close_body"]
    /\ UNCHANGED <<gist, mu, frame, ret, info, everLoaded, hist, panicked, dirs>>

CloseBody(t) ==
    /\ pc[t] = "close_body"
    /\ ret' = [ret EXCEPT ![t].err = CloseErr(files[ret[t].h])]
    /\ files' = [files EXCEPT ![ret[t].h] = CloseFile(@)]
    /\ hist' = [hist EXCEPT ![ret[t].h].closed = TRUE]
    /\ pc' = [pc EXCEPT ![t] = "close_unlock"]
    /\ UNCHANGED <<gist, mu, frame, info, everLoaded, panicked, dirs>>

CloseUnlock(t) ==
    /\ pc[t] = "close_unlock"
    /\ files' = FilesAfterUnlock(files, ret[t].h, ret[t].err)
    /\ pc' = [pc EXCEPT ![t] = "idle"]
    /\ ret' = [ret EXCEPT ![t] = NoRet]
    /\ UNCHANGED <<gist, mu, frame, info, everLoaded, hist, panicked, dirs>>

\* --- Stat
StatCall(t) ==
    /\ pc[t] = "idle"
    /\ \E h \in HandleArgs :
         IF h = 0
         THEN /\ ret' = [ret EXCEPT ![t] =
                           [FileCall("Stat", h, 0) EXCEPT !.err = "Invalid"]]
              /\ pc' = [pc EXCEPT ![t] = "return"]
         ELSE /\ ret' = [ret EXCEPT ![t] = FileCall("Stat", h, 0)]
              /\ pc' = [pc EXCEPT ![t] = "stat_lock"]
    /\ info' = [info EXCEPT ![t] = 0]
    /\ UNCHANGED <<gist, mu, files, frame, everLoaded, hist, panicked, dirs>>

StatLock(t) ==
    /\ pc[t] = "stat_lock"
    /\ HandleLockFree(files[ret[t].h])
    /\ files' = [files EXCEPT ![ret[t].h].mu = t]
    /\ pc' = [pc EXCEPT ![t] = "stat_check"]
    /\ UNCHANGED <<gist, mu, frame, ret, info, everLoaded, hist, panicked, dirs>>

\* if f.isClosed() { return nil, fs.ErrClosed }; return f, nil
StatCheck(t) ==
    /\ pc[t] = "stat_check"
    /\ IF isClosed(files[ret[t].h])
       THEN ret' = [ret EXCEPT ![t].err = "Closed"]
       ELSE ret' = [ret EXCEPT ![t].file = ret[t].h]
    /\ pc' = [pc EXCEPT ![t] = "stat_unlock"]
    /\ UNCHANGED <<gist, mu, files, frame, info, everLoaded, hist, panicked, dirs>>

\* The caller keeps the fs.FileInfo returned: the handle itself.
StatUnlock(t) ==
    /\ pc[t] = "stat_unlock"
    /\ files' = FilesAfterUnlock(files, ret[t].h, ret[t].err)
    /\ info' = [info EXCEPT ![t] = ret[t].file]
    /\ pc' = [pc EXCEPT ![t] = "idle"]
    /\ ret' = [ret EXCEPT ![t] = NoRet]
    /\ UNCHANGED <<gist, mu, frame, everLoaded, hist, panicked, dirs>>

\* --- Size, on the fs.FileInfo of a Stat: int64(f.gistFile.GetSize()), no lock.
\* A caller uses the fs.FileInfo of its last Stat until its next call.
Size(t) ==
    /\ pc[t] = "idle"
    /\ info[t] # 0
    /\ ret' = [ret EXCEPT ![t] =
                 [FileCall("Size", info[t], 0) EXCEPT
                    !.n = GetSize(files[info[t]].gistFile)]]
    /\ pc' = [pc EXCEPT ![t] = "return"]
    /\ UNCHANGED <<gist, mu, files, frame, info, everLoaded, hist, panicked, dirs>>

\* --- Name, Mode, ModTime and IsDir, on the fs.FileInfo of a Stat; no lock.
FileMode == 292   \* 0444

Name(f)    == GetFilename(f.gistFile)
Mode(f)    == FileMode
ModTime(f) == f.modtime
IsDir(f)   == FALSE

\* The caller reads the four of them from the fs.FileInfo of its last Stat.
\* Name alone reads a field that Close writes.
FileInfo(t) ==
    /\ pc[t] = "idle"
    /\ info[t] # 0
    /\ LET f == files[info[t]] IN
       ret' = [ret EXCEPT ![t] =
                 [FileCall("FileInfo", info[t], 0) EXCEPT
                    !.fname = Name(f), !.mode = Mode(f),
                    !.mtime = ModTime(f), !.isDir = IsDir(f)]]
    /\ pc' = [pc EXCEPT ![t] = "return"]
    /\ UNCHANGED <<gist, mu, files, frame, info, everLoaded, hist, panicked, dirs>>

\* --- ReadDir on a file handle: return nil, fs.ErrInvalid.  No nil check, no
\* lock, no field of the handle is read.
FileReadDirCounts == {-1, 0, 1}

FileReadDir(t) ==
    /\ pc[t] = "idle"
    /\ \E h \in HandleArgs, n \in FileReadDirCounts :
         ret' = [ret EXCEPT ![t] =
                   [FileCall("File.ReadDir", h, 0) EXCEPT
                      !.count = n, !.err = "Invalid"]]
    /\ pc' = [pc EXCEPT ![t] = "return"]
    /\ info' = [info EXCEPT ![t] = 0]
    /\ UNCHANGED <<gist, mu, files, frame, everLoaded, hist, panicked, dirs>>

\* ---------------------------------------------------------- FS.ReadDir
\* The enumerations of a set of names.
Orders(S) ==
    {q \in [1..Cardinality(S) -> S] :
       \A i, j \in 1..Cardinality(S) : i # j => q[i] # q[j]}

\* The order in which one snapshot's records are enumerated: some order, no
\* particular sort, the same for every enumeration of that snapshot.
EntryOrder(gp) == CHOOSE q \in Orders(DOMAIN Deref(gp).Files) : TRUE

Reverse(q) == [i \in 1..Len(q) |-> q[Len(q) + 1 - i]]

ReadDirEntriesReversed(gp) == Reverse(EntryOrder(gp))

\* The full, unpaginated list that ReadDir answers from a snapshot.
ReadDirEntries(gp) == EntryOrder(gp)

\* What ReadDir may answer for a path that is not the root.
ReadDirPathErrs == {"NotExist", "Invalid"}

\* Under shared access: NotLoaded, or the names of all records in the
\* snapshot's order.
ReadDir(t) ==
    /\ pc[t] = "idle"
    /\ RLockFree(mu)
    /\ \E path \in Paths :
         LET c == FSCall("ReadDir", path) IN
         IF gist = Nil
         THEN ret' = [ret EXCEPT ![t] = [c EXCEPT !.err = "NotLoaded"]]
         ELSE IF path # RootPath
         THEN \E e \in ReadDirPathErrs :
                ret' = [ret EXCEPT ![t] = [c EXCEPT !.err = e]]
         ELSE ret' = [ret EXCEPT ![t] =
                        [c EXCEPT !.entries = ReadDirEntries(gist)]]
    /\ pc' = [pc EXCEPT ![t] = "return"]
    /\ info' = [info EXCEPT ![t] = 0]
    /\ UNCHANGED <<gist, mu, files, frame, everLoaded, hist, panicked, dirs>>

\* ------------------------------------------------- the directory handle
\* Open of the root path and the handle it returns: entries (the snapshot's
\* records in the snapshot's order), offset, modtime; as history, the
\* snapshot it was taken from and the entries its ReadDir calls returned.
MaxDirs  == 2   \* directory handles that Open may allocate in one run
MaxCount == 3   \* ReadDir(n) is called with n in -1..MaxCount

Dirs == 1..Len(dirs)

ReadDirCounts == -1..MaxCount

NewDir(gp) ==
    [entries |-> EntryOrder(gp), offset |-> 0, modtime |-> GetUpdatedAt(gp),
     snap |-> gp, out |-> <<>>]

\* The start of a call on a directory handle.
DirCall(op, d) == [NoRet EXCEPT !.op = op, !.dir = d]

\* Open(RootPath): under shared access, NotLoaded or a new directory handle.
OpenRoot(t) ==
    /\ pc[t] = "idle"
    /\ RLockFree(mu)
    /\ Len(dirs) < MaxDirs
    /\ LET c == FSCall("Open", RootPath) IN
       IF gist = Nil
       THEN /\ ret' = [ret EXCEPT ![t] = [c EXCEPT !.err = "NotLoaded"]]
            /\ dirs' = dirs
       ELSE /\ dirs' = Append(dirs, NewDir(gist))
            /\ ret' = [ret EXCEPT ![t] = [c EXCEPT !.dir = Len(dirs) + 1]]
    /\ pc' = [pc EXCEPT ![t] = "return"]
    /\ info' = [info EXCEPT ![t] = 0]
    /\ UNCHANGED <<gist, mu, files, frame, everLoaded, hist, panicked>>

DirCountAll(len, offset, n) == len - offset

\* How many entries ReadDir(n) returns from a handle of len entries at offset.
DirCount(len, offset, n) ==
    IF n <= 0 THEN len - offset ELSE Min(n, len - offset)

\* ReadDir(n) on a directory handle, serialized by the handle: the next
\* DirCount entries from offset, and offset advanced past them.
DirReadDir(t) ==
    /\ pc[t] = "idle"
    /\ \E d \in Dirs, n \in ReadDirCounts :
         LET dir == dirs[d]
             k   == DirCount(Len(dir.entries), dir.offset, n)
             b   == [i \in 1..k |-> dir.entries[dir.offset + i]] IN
         /\ ret' = [ret EXCEPT ![t] =
                      [DirCall("Dir.ReadDir", d) EXCEPT
                         !.count = n, !.n = k, !.entries = b]]
         /\ dirs' = [dirs EXCEPT ![d].offset = @ + k, ![d].out = @ \o b]
    /\ pc' = [pc EXCEPT ![t] = "return"]
    /\ info' = [info EXCEPT ![t] = 0]
    /\ UNCHANGED <<gist, mu, files, frame, everLoaded, hist, panicked>>

\* Read on a directory handle: the target is a directory.
DirRead(t) ==
    /\ pc[t] = "idle"
    /\ \E d \in Dirs, blen \in 0..MaxBuf :
         ret' = [ret EXCEPT ![t] =
                   [DirCall("Dir.Read", d) EXCEPT
                      !.blen = blen, !.err = "IsADirectory"]]
    /\ pc' = [pc EXCEPT ![t] = "return"]
    /\ info' = [info EXCEPT ![t] = 0]
    /\ UNCHANGED <<gist, mu, files, frame, everLoaded, hist, panicked, dirs>>

\* Close on a directory handle: a no-op success.
DirClose(t) ==
    /\ pc[t] = "idle"
    /\ \E d \in Dirs : ret' = [ret EXCEPT ![t] = DirCall("Dir.Close", d)]
    /\ pc' = [pc EXCEPT ![t] = "return"]
    /\ info' = [info EXCEPT ![t] = 0]
    /\ UNCHANGED <<gist, mu, files, frame, everLoaded, hist, panicked, dirs>>

Next ==
    \E t \in Threads :
        \/ LoadCall(t) \/ LoadLock(t) \/ LoadFetch(t) \/ LoadAssign(t)
        \/ LoadUnlock(t)
        \/ OpenCall(t) \/ OpenRLock(t) \/ OpenCheck(t) \/ OpenLookup(t)
        \/ OpenNew(t) \/ OpenRUnlock(t)
        \/ ReadFileCall(t) \/ ReadFileRLock(t) \/ ReadFileCheck(t)
        \/ ReadFileLookup(t) \/ ReadFileRUnlock(t)
        \/ ReadCall(t) \/ ReadLock(t) \/ ReadCheck(t) \/ ReadLoad(t)
        \/ ReadCopy(t) \/ ReadUnlock(t)
        \/ CloseCall(t) \/ CloseLock(t) \/ CloseBody(t) \/ CloseUnlock(t)
        \/ StatCall(t) \/ StatLock(t) \/ StatCheck(t) \/ StatUnlock(t)
        \/ Size(t) \/ FileInfo(t)
        \/ FileReadDir(t)
        \/ ReadDir(t)
        \/ Return(t)

Spec == Init /\ [][Next]_vars

\* The root and its directory handles: Load, Open of the root path, the
\* operations of a directory handle, and ReadDir.
NextDir ==
    \E t \in Threads :
        \/ LoadCall(t) \/ LoadLock(t) \/ LoadFetch(t) \/ LoadAssign(t)
        \/ LoadUnlock(t)
        \/ OpenRoot(t)
        \/ DirReadDir(t) \/ DirRead(t) \/ DirClose(t)
        \/ ReadDir(t)
        \/ Return(t)

SpecDir == Init /\ [][NextDir]_vars

\* ------------------------------------------------------------- progress
\* The calls that take locks, on at most MaxLiveHandles handles, under the
\* scheduling the Go runtime gives them: a goroutine that can take a step
\* takes it, every fetch returns, and a goroutine waiting for a sync.Mutex or
\* a sync.RWMutex gets it if it is free again and again (sync.Mutex hands the
\* lock to a starving waiter, a pending RWMutex.Lock holds new readers back).
\* Whether a caller makes another call is up to the caller.
MaxLiveHandles == 1

LiveOpenCall(t) ==
    /\ Len(files) + Cardinality(Opening) < MaxLiveHandles
    /\ OpenCall(t)

Calls(t) ==
    \/ LoadCall(t) \/ LiveOpenCall(t) \/ ReadFileCall(t)
    \/ ReadCall(t) \/ CloseCall(t) \/ StatCall(t)

Acquire(t) ==
    \/ LoadLock(t) \/ OpenRLock(t) \/ ReadFileRLock(t)
    \/ ReadLock(t) \/ CloseLock(t) \/ StatLock(t)

Body(t) ==
    \/ LoadFetch(t) \/ LoadAssign(t) \/ LoadUnlock(t)
    \/ OpenCheck(t) \/ OpenLookup(t) \/ OpenNew(t) \/ OpenRUnlock(t)
    \/ ReadFileCheck(t) \/ ReadFileLookup(t) \/ ReadFileRUnlock(t)
    \/ ReadCheck(t) \/ ReadLoad(t) \/ ReadCopy(t) \/ ReadUnlock(t)
    \/ CloseBody(t) \/ CloseUnlock(t)
    \/ StatCheck(t) \/ StatUnlock(t)
    \/ Return(t)

NextLive == \E t \in Threads : Calls(t) \/ Acquire(t) \/ Body(t)

Fairness == \A t \in Threads : WF_vars(Body(t)) /\ SF_vars(Acquire(t))

SpecLive == Init /\ [][NextLive]_vars /\ Fairness

\* ================================================================ claims
IsPrefix(p, q) == Len(p) <= Len(q) /\ p = SubSeq(q, 1, Len(p))

FSReadPcs == {"open_runlock", "rf_runlock"}

\* C1: on a root on which no Load has succeeded, every Open, ReadFile and
\* ReadDir, for every name including the root path, fails with NotLoaded and
\* returns no handle, no data and no entries.
C1_NotLoadedBeforeLoad ==
    ~everLoaded =>
      \A t \in Threads :
        (Returning(t) /\ ret[t].op \in {"Open", "ReadFile", "ReadDir"}) =>
          /\ ret[t].err = "NotLoaded"
          /\ ret[t].file = 0
          /\ ret[t].data = <<>>
          /\ ret[t].entries = <<>>

\* An Open of the root path returning NotLoaded on a root never loaded.
C1_Witness ==
    /\ ~everLoaded
    /\ \E t \in Threads :
         /\ pc[t] = "open_runlock"
         /\ ret[t].name = RootPath
         /\ ret[t].err = "NotLoaded"

\* C2: a Read that returns the end-of-sequence marker ends a drain: the bytes
\* the Reads on that handle returned, in call order, are exactly the content
\* of the record the handle was opened on.
C2_RoundTrip ==
    \A t \in Threads :
      (pc[t] = "read_unlock" /\ ret[t].err = "EOF") =>
        /\ hist[ret[t].h].out = hist[ret[t].h].content
        /\ hist[ret[t].h].content = GetContent(hist[ret[t].h].gf)
        /\ ret[t].n = 0

\* The longest content drained to its end.
C2_Witness ==
    \E t \in Threads :
      /\ pc[t] = "read_unlock"
      /\ ret[t].err = "EOF"
      /\ Len(hist[ret[t].h].out) = MaxLen

\* C3: once Close has run on a handle the handle stays closed, and every Read
\* and Stat called after that fails with Closed and returns nothing.
C3_ClosedAbsorbing ==
    /\ \A h \in Handles : hist[h].closed => isClosed(files[h])
    /\ \A t \in Threads :
         (Returning(t) /\ ret[t].op \in {"Read", "Stat"} /\ ret[t].wasClosed) =>
           /\ ret[t].err = "Closed"
           /\ ret[t].n = 0
           /\ ret[t].data = <<>>
           /\ ret[t].file = 0

\* A Read failing with Closed on a handle that was closed when partly read.
C3_Witness ==
    \E t \in Threads :
      /\ pc[t] = "read_unlock"
      /\ ret[t].wasClosed
      /\ ret[t].err = "Closed"
      /\ Len(hist[ret[t].h].out) > 0
      /\ Len(hist[ret[t].h].out) < Len(hist[ret[t].h].content)

\* C4: Close on a non-nil handle never fails, and a Close on a handle that is
\* already closed leaves the handle as it was.
C4_CloseIdempotent ==
    [][\A t \in Threads :
         /\ pc'[t] = "close_unlock" => ret'[t].err = "nil"
         /\ (pc[t] = "close_body" /\ pc'[t] = "close_unlock"
               /\ hist[ret[t].h].closed) =>
              /\ files'[ret[t].h] = files[ret[t].h]
              /\ hist'[ret[t].h] = hist[ret[t].h]]_vars

\* A second Close returning without error.
C4_Witness ==
    \E t \in Threads :
      /\ pc[t] = "close_unlock"
      /\ ret[t].wasClosed
      /\ ret[t].err = "nil"

\* C5: after a successful Load, Open of a non-root name that is in no snapshot
\* current during the call fails with NotExist, the error carries the
\* requested path, and no handle is returned.
C5_NotExistCarriesPath ==
    \A t \in Threads :
      (/\ pc[t] = "open_runlock"
       /\ ret[t].wasLoaded
       /\ ret[t].name # RootPath
       /\ \A gp \in ret[t].seen : ~HasFile(gp, ret[t].name)) =>
        /\ ret[t].err = "NotExist"
        /\ ret[t].errPath = ret[t].name
        /\ ret[t].file = 0

\* C6: a Load whose fetch fails returns the fetch's error and changes neither
\* the root nor any handle; and an Open or ReadFile called after a successful
\* Load never fails with NotLoaded.
C6_FailedLoadKeepsState ==
    [][\A t \in Threads :
         /\ (pc[t] = "load_assign" /\ pc'[t] = "load_unlock"
               /\ frame[t].err # "nil") =>
              /\ gist' = gist
              /\ files' = files
              /\ ret'[t].err = frame[t].err
              /\ ret'[t].err \in FetchErrs
         /\ (pc'[t] \in FSReadPcs /\ ret'[t].wasLoaded) =>
              ret'[t].err # "NotLoaded"]_vars

\* A failed Load returning on a root that is loaded.
C6_Witness ==
    \E t \in Threads :
      /\ pc[t] = "load_unlock"
      /\ ret[t].err \in FetchErrs
      /\ gist # Nil

\* C7: the Size reported by the fs.FileInfo of an open handle equals the byte
\* length of the content that ReadFile and a drain of the handle return.
C7_SizeIsContentLength ==
    \A t \in Threads :
      (pc[t] = "return" /\ ret[t].op = "Size" /\ ~hist[ret[t].h].closed) =>
        ret[t].n = Len(hist[ret[t].h].content)

\* What Open or ReadFile of name must return on snapshot gp.
ConsistentWith(r, gp) ==
    IF gp = Nil
    THEN r.err = "NotLoaded" /\ r.file = 0 /\ r.data = <<>>
    ELSE IF ~HasFile(gp, r.name)
    THEN r.err = "NotExist" /\ r.file = 0 /\ r.data = <<>>
    ELSE /\ r.err = "nil"
         /\ IF r.op = "ReadFile"
            THEN r.data = FileOf(gp, r.name).Content
            ELSE /\ r.file \in Handles
                 /\ files[r.file].gistFile = Ptr(FileOf(gp, r.name))
                 /\ files[r.file].modtime = GetUpdatedAt(gp)
                 /\ files[r.file].reader =
                      Ptr(NewReader(FileOf(gp, r.name).Content))

\* C8: every Open and ReadFile returns what one complete snapshot, current at
\* some moment of the call, gives: the not-loaded state or the gist of one
\* Load, never records of one with the modification time of another.
C8_SnapshotAtomic ==
    /\ \A t \in Threads :
         pc[t] \in FSReadPcs =>
           \E gp \in ret[t].seen : ConsistentWith(ret[t], gp)
    /\ \A h \in Handles :
         \E g \in FetchGists :
           /\ HasFile(Ptr(g), hist[h].name)
           /\ hist[h].gf = Ptr(FileOf(Ptr(g), hist[h].name))
           /\ files[h].modtime = g.UpdatedAt

\* An Open that ran across a Load and returned a handle.
C8_Witness ==
    \E t \in Threads :
      /\ pc[t] = "open_runlock"
      /\ Cardinality(ret[t].seen) >= 2
      /\ ret[t].err = "nil"
      /\ ret[t].file \in Handles

InHandleLock == {"read_check", "read_load", "read_copy", "read_unlock",
                 "close_body", "close_unlock", "stat_check", "stat_unlock"}

\* C9: Read, Close and Stat on one handle take effect one at a time: at most
\* one of them is past the handle's lock, the bytes returned by the Reads are
\* consecutive ranges that form a prefix of the content, each Read returns the
\* range that ends at the cursor, and no reader is used after its release.
C9_HandleCallsSerialize ==
    /\ ~panicked
    /\ \A h \in Handles :
         /\ Cardinality({t \in Threads :
                           pc[t] \in InHandleLock /\ ret[t].h = h}) <= 1
         /\ IsPrefix(hist[h].out, hist[h].content)
         /\ ~isClosed(files[h]) => Deref(files[h].reader).i = Len(hist[h].out)
    /\ \A t \in Threads :
         (pc[t] = "read_unlock" /\ ret[t].err \in {"nil", "EOF"}) =>
           LET o == hist[ret[t].h].out IN
           /\ ret[t].n = Len(ret[t].data)
           /\ ret[t].n <= Len(o)
           /\ ret[t].data = SubSeq(o, Len(o) - ret[t].n + 1, Len(o))

\* A second Read returning bytes while another goroutine waits to close the
\* same handle.
C9_Witness ==
    \E t, u \in Threads :
      /\ pc[t] = "read_unlock"
      /\ ret[t].n > 0
      /\ Len(hist[ret[t].h].out) > ret[t].n
      /\ pc[u] = "close_lock"
      /\ ret[u].h = ret[t].h

\* C10: handles are independent: Open returns a fresh open handle with its
\* cursor at 0 and changes no other handle, no step of Open changes the
\* root's records, and no step of Read, Close or Stat on one handle changes
\* another handle.
C10_HandlesIndependent ==
    [][\A t \in Threads :
         /\ (pc[t] = "open_new" /\ pc'[t] = "open_runlock") =>
              /\ ret'[t].file = Len(files) + 1
              /\ Len(files') = Len(files) + 1
              /\ ~isClosed(files'[ret'[t].file])
              /\ Deref(files'[ret'[t].file].reader).i = 0
              /\ \A k \in Handles : files'[k] = files[k] /\ hist'[k] = hist[k]
         /\ (pc'[t] # pc[t] /\ (ret[t].op = "Open" \/ ret'[t].op = "Open")) =>
              gist' = gist
         /\ (pc'[t] # pc[t] /\ ret[t].op \in {"Read", "Close", "Stat"}) =>
              \A k \in Handles \ {ret[t].h} :
                files'[k] = files[k] /\ hist'[k] = hist[k]]_vars

\* Two open handles on the same record with different cursors.
C10_Witness ==
    \E h, k \in Handles :
      /\ h # k
      /\ hist[h].name = hist[k].name
      /\ hist[h].gf = hist[k].gf
      /\ ~isClosed(files[h])
      /\ ~isClosed(files[k])
      /\ Deref(files[h].reader).i # Deref(files[k].reader).i

\* C11: after a successful Load, Open of the root path succeeds and returns a
\* fresh directory handle that holds every record of the snapshot exactly
\* once, its offset at 0 (from where ReadDir(1) gives one batch per record
\* and ReadDir(-1) all of them at once).
C11_OpenRootReturnsDirectory ==
    \A t \in Threads :
      (/\ pc[t] = "open_runlock"
       /\ ret[t].wasLoaded
       /\ ret[t].name = RootPath) =>
        /\ ret[t].err = "nil"
        /\ ret[t].dir \in Dirs
        /\ dirs[ret[t].dir].offset = 0
        /\ \E gp \in ret[t].seen :
             /\ gp # Nil
             /\ dirs[ret[t].dir].entries \in Orders(DOMAIN Deref(gp).Files)

\* C12: the wrong-kind operations fail and change nothing: ReadDir(n) on a
\* file handle returns NotADirectory for every n, Read on a directory handle
\* returns IsADirectory for every buffer, and neither changes any handle.
C12_WrongKindFails ==
    [][\A t \in Threads :
         /\ (/\ pc[t] = "idle" /\ pc'[t] = "return"
             /\ ret'[t].op = "File.ReadDir"
             /\ ret'[t].h \in Handles) =>
              /\ ret'[t].err = "NotADirectory"
              /\ ret'[t].entries = <<>>
              /\ files' = files
              /\ hist' = hist
         /\ (/\ pc[t] = "idle" /\ pc'[t] = "return"
             /\ ret'[t].op = "Dir.Read"
             /\ ret'[t].dir \in Dirs) =>
              /\ ret'[t].err = "IsADirectory"
              /\ ret'[t].n = 0
              /\ dirs' = dirs]_vars

\* What a ReadFile that is about to return has in common with every Open of
\* the same name that is about to return (both hold shared access, so both
\* answer from the same snapshot) and with every handle opened on the same
\* record of that snapshot.
ReadFileAgrees ==
    \A t \in Threads :
      (pc[t] = "rf_runlock" /\ ret[t].name # RootPath) =>
        /\ \A u \in Threads :
             (pc[u] = "open_runlock" /\ ret[u].name = ret[t].name) =>
               /\ ret[u].err = ret[t].err
               /\ ret[t].err \in {"nil", "NotLoaded", "NotExist"}
               /\ ret[t].err = "nil" =>
                    ret[t].data = hist[ret[u].file].content
        /\ ret[t].err = "nil" =>
             \A h \in Handles :
               (/\ hist[h].name = ret[t].name
                /\ hist[h].gf = Ptr(FileOf(gist, ret[t].name))) =>
                 /\ IsPrefix(hist[h].out, ret[t].data)
                 /\ \A u \in Threads :
                      (/\ pc[u] = "read_unlock"
                       /\ ret[u].h = h
                       /\ ret[u].err = "EOF") => hist[h].out = ret[t].data
        /\ ret[t].file = 0

\* C13: ReadFile agrees with Open: for every name but the root path it fails
\* exactly when Open of that name fails, with the same error (NotLoaded,
\* NotExist), and otherwise returns the bytes that draining a handle from Open
\* of that name yields; no step of ReadFile creates a handle or changes the
\* root's records or any handle.
C13_ReadFileAgreesWithOpen ==
    [][/\ ReadFileAgrees'
       /\ \A t \in Threads :
            (pc'[t] # pc[t] /\ (ret[t].op = "ReadFile"
                                  \/ ret'[t].op = "ReadFile")) =>
              /\ gist' = gist
              /\ files' = files
              /\ hist' = hist
              /\ dirs' = dirs]_vars

\* A ReadFile returns bytes while a Read on a handle opened on the same record
\* reports the end of that handle's content; and a ReadFile and an Open of
\* the same name both fail.
C13_Witness ==
    \E t, u \in Threads :
      /\ pc[t] = "rf_runlock"
      /\ ret[t].err = "nil"
      /\ ret[t].data # <<>>
      /\ pc[u] = "read_unlock"
      /\ ret[u].err = "EOF"
      /\ hist[ret[u].h].name = ret[t].name
      /\ hist[ret[u].h].gf = Ptr(FileOf(gist, ret[t].name))
      /\ hist[ret[u].h].out = ret[t].data

\* C14: exhaustion is stable: a Read on an open handle whose cursor is at the
\* end of the content (an empty content included) returns 0 bytes with EOF
\* and leaves the cursor and the handle as they were, however often it is
\* repeated; and a Read fails only with Closed, and only on a handle on
\* which Close has run.
C14_ExhaustionStable ==
    [][\A t \in Threads :
         /\ (/\ pc[t] = "read_copy" /\ pc'[t] = "read_unlock"
             /\ ~isClosed(files[ret[t].h])
             /\ Deref(files[ret[t].h].reader).i
                  = Len(Deref(files[ret[t].h].reader).s)) =>
              /\ ret'[t].n = 0
              /\ ret'[t].err = "EOF"
              /\ ret'[t].data = <<>>
              /\ files' = files
              /\ hist' = hist
         /\ (pc'[t] = "read_unlock" /\ ret'[t].err \notin {"nil", "EOF"}) =>
              /\ ret'[t].err = "Closed"
              /\ hist'[ret'[t].h].closed]_vars

\* A Read with a buffer of one byte or more reports the end of an empty
\* content on which no Read has returned anything.
C14_Witness ==
    \E t \in Threads :
      /\ pc[t] = "read_unlock"
      /\ ret[t].err = "EOF"
      /\ ret[t].blen > 0
      /\ hist[ret[t].h].content = <<>>
      /\ ~hist[ret[t].h].closed

\* C16: Stat on an open handle succeeds, and the metadata it returns, read
\* while the handle is open, has the name the handle was opened with, mode
\* 0444, isDir false and the last-modified time of the gist that was the
\* snapshot when the handle was opened.
C16_StatMetadata ==
    \A t \in Threads :
      /\ (pc[t] = "stat_unlock" /\ ~hist[ret[t].h].closed) =>
           /\ ret[t].err = "nil"
           /\ ret[t].file = ret[t].h
      /\ (/\ pc[t] = "return"
          /\ ret[t].op = "FileInfo"
          /\ ~hist[ret[t].h].closed) =>
           /\ ret[t].fname = hist[ret[t].h].name
           /\ ret[t].mode = FileMode
           /\ ~ret[t].isDir
           /\ ret[t].mtime = GetUpdatedAt(hist[ret[t].h].snap)
           /\ ret[t].mtime \in {g.UpdatedAt : g \in FetchGists}

\* The metadata of an open handle is read after a later Load has replaced the
\* snapshot by one with another last-modified time.
C16_Witness ==
    \E t \in Threads :
      /\ pc[t] = "return"
      /\ ret[t].op = "FileInfo"
      /\ ~hist[ret[t].h].closed
      /\ gist # Nil
      /\ ret[t].mtime # GetUpdatedAt(gist)

\* C17: NotLoaded is in the Invalid category without being the Invalid error:
\* the error of an Open or ReadFile on a root that no Load has loaded matches
\* fs.ErrInvalid under errors.Is and is not fs.ErrInvalid, and the error of a
\* Read, Close or Stat on a nil handle is fs.ErrInvalid and does not match
\* NotLoaded.
C17_NotLoadedIsInvalid ==
    \A t \in Threads :
      /\ (/\ pc[t] \in FSReadPcs
          /\ ~everLoaded) =>
           /\ ErrorsIs(ret[t].err, "Invalid")
           /\ ret[t].err # "Invalid"
      /\ (/\ pc[t] = "return"
          /\ ret[t].op \in {"Read", "Close", "Stat"}
          /\ ret[t].h = 0) =>
           /\ ret[t].err = "Invalid"
           /\ ~ErrorsIs(ret[t].err, "NotLoaded")

\* An Open on an unloaded root and a Read on a nil handle return together.
C17_Witness ==
    \E t, u \in Threads :
      /\ pc[t] = "open_runlock"
      /\ ~everLoaded
      /\ ret[t].err = "NotLoaded"
      /\ pc[u] = "return"
      /\ ret[u].op = "Read"
      /\ ret[u].h = 0
      /\ ret[u].err = "Invalid"

\* C18: a Read on an open handle with the cursor at c, a content of L bytes
\* and a buffer of b bytes returns min(b, L - c) and the bytes c+1 .. c+n of
\* the content, and moves the cursor to c + n; the cursor of an open handle
\* is always in 0..L and no step moves it back.
C18_ReadCopiesMin ==
    [][/\ \A t \in Threads :
            (/\ pc[t] = "read_copy" /\ pc'[t] = "read_unlock"
             /\ ~isClosed(files[ret[t].h])) =>
              LET h == ret[t].h
                  c == Deref(files[h].reader).i
                  L == Len(hist[h].content)
                  n == Min(ret'[t].blen, L - c) IN
              /\ ret'[t].n = n
              /\ ret'[t].data = [k \in 1..n |-> hist[h].content[c + k]]
              /\ ~isClosed(files'[h])
              /\ Deref(files'[h].reader).i = c + n
       /\ \A h \in Handles :
            /\ ~isClosed(files[h]) =>
                 /\ Deref(files[h].reader).i >= 0
                 /\ Deref(files[h].reader).i <= Len(hist[h].content)
            /\ ~isClosed(files'[h]) =>
                 /\ ~isClosed(files[h])
                 /\ Deref(files'[h].reader).i >= Deref(files[h].reader).i
                 /\ Deref(files'[h].reader).i <= Len(hist[h].content)]_vars

\* A Read returns fewer bytes than its buffer holds, and not none: the rest
\* of the content was shorter than the buffer.
C18_Witness ==
    \E t \in Threads :
      /\ pc[t] = "read_unlock"
      /\ ret[t].err = "nil"
      /\ ret[t].n > 0
      /\ ret[t].n < ret[t].blen

C20_LoadLeavesHandles ==
    [][/\ \A t \in Threads :
            (pc'[t] # pc[t] /\ (ret[t].op = "Load" \/ ret'[t].op = "Load")) =>
              /\ files' = files
              /\ hist' = hist
              /\ dirs' = dirs
       /\ \A h \in 1..Len(files') :
            hist'[h].snap # gist' =>
              /\ files'[h].modtime = GetUpdatedAt(hist'[h].snap)
              /\ GetSize(hist'[h].gf)
                   = GetSize(Ptr(FileOf(hist'[h].snap, hist'[h].name)))
              /\ IsPrefix(hist'[h].out, hist'[h].content)
              /\ ~isClosed(files'[h]) =>
                   /\ files'[h].gistFile = hist'[h].gf
                   /\ Deref(files'[h].reader).s = hist'[h].content
                   /\ Deref(files'[h].reader).i = Len(hist'[h].out)
              /\ \A t \in Threads :
                   (/\ pc'[t] = "read_unlock"
                    /\ ret'[t].h = h
                    /\ ret'[t].err = "EOF") =>
                     hist'[h].out = hist'[h].content
       /\ \A d \in 1..Len(dirs') :
            dirs'[d].snap # gist' =>
              /\ dirs'[d].entries \in Orders(DOMAIN Deref(dirs'[d].snap).Files)
              /\ dirs'[d].modtime = GetUpdatedAt(dirs'[d].snap)]_vars

\* A Read reports the end of a handle whose snapshot a later Load has
\* replaced, after the Reads have returned the old, non-empty content.
C20_Witness ==
    \E t \in Threads :
      /\ pc[t] = "read_unlock"
      /\ ret[t].err = "EOF"
      /\ hist[ret[t].h].snap # gist
      /\ hist[ret[t].h].content # <<>>
      /\ hist[ret[t].h].out = hist[ret[t].h].content
      /\ HasFile(gist, hist[ret[t].h].name)
      /\ GetContent(Ptr(FileOf(gist, hist[ret[t].h].name)))
           # hist[ret[t].h].content

\* C21: the fs.FileInfo of a successful Stat is a stable snapshot: whenever
\* its accessors are read, after any Read or Close on the handle, Name, Size,
\* ModTime and IsDir give what they gave when Stat returned: the name and the
\* size of the record the handle was opened on, the modification time of its
\* snapshot, and false.
C21_FileInfoStable ==
    \A t \in Threads :
      /\ (pc[t] = "return" /\ ret[t].op = "FileInfo") =>
           /\ ret[t].fname = GetFilename(hist[ret[t].h].gf)
           /\ ret[t].mtime = GetUpdatedAt(hist[ret[t].h].snap)
           /\ ~ret[t].isDir
      /\ (pc[t] = "return" /\ ret[t].op = "Size") =>
           ret[t].n = GetSize(hist[ret[t].h].gf)

InLoadLock == {"load_fetch", "load_assign", "load_unlock"}

InRLock == {"open_check", "open_lookup", "open_new", "open_runlock",
            "rf_check", "rf_lookup", "rf_runlock"}

\* C22: Load holds the root's lock exclusively from before its fetch until it
\* returns: while a Load is fetching, storing or about to unlock, no Open and
\* no ReadFile is past its RLock, so none returns; and what an Open or
\* ReadFile returns is what the root holds when it returns, the outcome of
\* every Load that ran while it waited.
C22_LoadExcludesReaders ==
    \A t \in Threads :
      /\ pc[t] \in InLoadLock =>
           /\ mu.writer = t
           /\ mu.readers = {}
           /\ \A u \in Threads \ {t} : pc[u] \notin InRLock \cup InLoadLock
      /\ pc[t] \in InRLock => (mu.writer = NoThread /\ t \in mu.readers)
      /\ pc[t] \in FSReadPcs => ConsistentWith(ret[t], gist)

\* A ReadFile that was called on one snapshot and waited while a Load
\* replaced it returns the content of the new one.
C22_Witness ==
    \E t \in Threads :
      /\ pc[t] = "rf_runlock"
      /\ Cardinality(ret[t].seen) >= 2
      /\ ret[t].err = "nil"
      /\ \E gp \in ret[t].seen \ {Nil} :
           /\ HasFile(gp, ret[t].name)
           /\ FileOf(gp, ret[t].name).Content # ret[t].data

\* A goroutine holds the root's lock or a handle's lock exactly while it is
\* between taking it and releasing it in one call: none when it is idle or
\* waiting, never two.
LocksMatchCalls ==
    \A t \in Threads :
      /\ mu.writer = t <=> pc[t] \in InLoadLock
      /\ t \in mu.readers <=> pc[t] \in InRLock
      /\ \A h \in Handles :
           files[h].mu = t <=> (pc[t] \in InHandleLock /\ ret[t].h = h)

\* C23: every Load, Open, ReadFile, Read, Close and Stat releases the lock it
\* took on every return path, no goroutine holds the root's lock and a
\* handle's lock together, and, every fetch returning, every call returns.
C23_CallsReturn ==
    /\ []LocksMatchCalls
    /\ \A t \in Threads : (pc[t] # "idle") ~> (pc[t] = "idle")

\* A Read waits for the lock of a handle while a Stat that found the handle
\* closed is about to return and release it.
C23_Witness ==
    \E t, u \in Threads :
      /\ pc[t] = "read_lock"
      /\ pc[u] = "stat_unlock"
      /\ ret[u].h = ret[t].h
      /\ ret[u].err = "Closed"
      /\ files[ret[t].h].mu = u
====
